---------------------------- MODULE Spec2Model ----------------------------
(***************************************************************************)
(* A model of smart-geo: server.js (NMEA tail reader, sentence parser,     *)
(* position merger, SSE broadcaster) and the page's script (the receiver   *)
(* that animates the marker).                                              *)
(*                                                                         *)
(* Representation.                                                         *)
(*  - A text line is a sequence of tokens; a token is one comma-separated  *)
(*    field of the line, so body.split(',') is the token sequence itself.  *)
(*    The checksum suffix is a token of its own that starts with '*'.      *)
(*  - The file is a sequence of tokens in which "\n" ends a line; a byte   *)
(*    offset of the code is a token index here.                            *)
(*  - A JavaScript value is a record [k, n, s]: k is its kind, n a number  *)
(*    in thousandths (fixed point), s a string.                            *)
(*  - An object (a fragment, latestPosition) is a function from Fields to  *)
(*    values in which Absent marks a key the object does not have.         *)
(*    latestPosition = null is the object with no key at all: every merge  *)
(*    writes receivedAt, so no merged object looks like it.                *)
(*  - In the receiver a time is a whole number of milliseconds and a       *)
(*    coordinate a whole number of grid units: the grid stands for the     *)
(*    doubles, and a product that falls between two grid points is rounded *)
(*    down to the grid. speedKmh and track only reach the page's text      *)
(*    fields and are left out of the positions.                            *)
(***************************************************************************)
EXTENDS Integers, Sequences, FiniteSets, Bags, TLC

VARIABLES
    latestPosition,   \* server.js:21  merged fields, or NullObj for null
    lastParsedRaw,    \* server.js:22  the fragment merged last
    now,              \* the wall clock read by new Date() / Date.now()
    file,             \* the content of nmea.txt, a sequence of tokens
    fileSize,         \* server.js:20  the stored offset
    pc,               \* where the startup code is: "stat", "read", "watch"
    reads,            \* the read streams in flight, a bag of [start, end]
    consumed,         \* history: how often each token of the file was handed
                      \*   to processLines (2 stands for "more than once")
    truncated,        \* history: the file was truncated at some time
    startupFailed,    \* history: readFileSync threw at startup
    resetPending,     \* history: a poll saw a truncation, no read started since
    pollSize,         \* history: the size the latest poll saw (NoPoll at start
                      \*   and once a read failed since)
    clients,          \* server.js:17  the Set of subscribers, in insertion order
    chan,             \* each channel's connection: "new", "open", "closed";
                      \*   channels connect in the order of their numbers
    sent,             \* the messages written to each channel, in order
    lastBroadcast,    \* server.js:179
    failed,           \* history: a write of a message to the channel threw
    marker,           \* part_000:69   marker.getLatLng(), as [lat, lon]
    trailPoints,      \* part_000:86
    mapView,          \* part_000:62   the map's [center, zoom]
    animStart,        \* part_000:149
    animDuration,     \* part_000:150
    currentPos,       \* part_000:151  NoPos for null
    targetPos,        \* part_000:152  NoPos for null
    animating,        \* part_000:153
    rafQueue,         \* the animateMarker callbacks requested for the next frame
    frame,            \* the callbacks of the frame in progress still to run
    clock,            \* the page's Date.now(), in ms
    received,         \* history: how many messages the page has handled
    lastReceived,     \* history: the position of the latest message that had one
    targetSetAt,      \* history: the time of the latest (re)targeting
    confirmed,        \* history: every position pushed to the trail, in order
    op                \* history: the operation that produced this state

mergeVars == <<latestPosition, lastParsedRaw, now>>
tailVars == <<file, fileSize, pc, reads>>
tailHist == <<consumed, truncated, startupFailed, resetPending, pollSize>>
bcastVars == <<clients, chan, sent, lastBroadcast, failed>>
animVars == <<animStart, animDuration, currentPos, targetPos, animating>>
pageVars == <<marker, trailPoints, mapView, rafQueue, frame, clock>>
pageHist == <<received, lastReceived, targetSetAt, confirmed>>
recvVars == <<animVars, pageVars, pageHist>>

(***************************************************************************)
(* Bounds                                                                  *)
(***************************************************************************)
MaxTime == 2
MaxFile == 3
MaxReads == 2
MaxChannels == 2
MaxMsgs == 2

(***************************************************************************)
(* JavaScript values                                                       *)
(***************************************************************************)
Absent == [k |-> "absent", n |-> 0, s |-> ""]
Undef == [k |-> "undefined", n |-> 0, s |-> ""]
Null == [k |-> "null", n |-> 0, s |-> ""]
NaN == [k |-> "NaN", n |-> 0, s |-> ""]
Num(x) == [k |-> "num", n |-> x, s |-> ""]
Str(x) == [k |-> "str", n |-> 0, s |-> x]

\* new Date().toISOString(): the clock reading as a timestamp value
Iso(t) == [k |-> "time", n |-> t, s |-> ""]

Fields ==
    {"type", "timeStr", "status", "lat", "lon", "speedKnots", "speedKmh",
     "track", "dateStr", "fix", "sats", "alt", "raw", "receivedAt"}

\* null, for latestPosition and for a parse result
NullObj == [f \in Fields |-> Absent]

\* the object literal { k1: v1, ... }
Obj(lit) == [f \in Fields |-> IF f \in DOMAIN lit THEN lit[f] ELSE Absent]

\* JavaScript truthiness of a value used as a condition
Truthy(v) ==
    CASE v.k = "str" -> v.s # ""
      [] v.k = "num" -> v.n # 0
      [] v.k = "time" -> TRUE
      [] OTHER -> FALSE

(***************************************************************************)
(* Numeric literals of the feed: the number each field string denotes, in  *)
(* thousandths. A string outside the table is not numeric.                 *)
(***************************************************************************)
NumLit ==
    "4807.038" :> 4807038 @@ "01131.000" :> 1131000 @@ "3352.000" :> 3352000 @@
    "15112.000" :> 15112000 @@ "022.4" :> 22400 @@ "084.4" :> 84400 @@
    "090.0" :> 90000 @@ "010.0" :> 10000 @@ "018.5" :> 18500 @@
    "08" :> 8000 @@ "00" :> 0 @@ "0.9" :> 900 @@ "545.4" :> 545400 @@
    "90" :> 90000 @@ "45" :> 45000

\* parseFloat(s)
ParseFloat(s) == IF s \in DOMAIN NumLit THEN Num(NumLit[s]) ELSE NaN

\* parseInt(s, 10): the integer part
ParseInt(s) ==
    IF s \in DOMAIN NumLit THEN Num((NumLit[s] \div 1000) * 1000) ELSE NaN

\* +(knots * 1.852).toFixed(2): two decimals, i.e. a multiple of 10 thousandths
KnotsToKmh(v) ==
    IF v.k = "num" THEN Num(((v.n * 1852 + 5000) \div 10000) * 10) ELSE NaN

\* parts[i] of body.split(','), 0-based; undefined past the end
Part(parts, i) == IF i + 1 <= Len(parts) THEN Str(parts[i + 1]) ELSE Undef

(***************************************************************************)
(* Sentence parser                                                         *)
(***************************************************************************)
\* dmToDecimal(dmStr, hemi): thousandths of a degree
dmToDecimal(dmStr, hemi) ==
    IF ~Truthy(dmStr) THEN Null
    ELSE LET v == ParseFloat(dmStr.s) IN
         IF v.k = "NaN" THEN Null
         ELSE LET degrees == v.n \div 100000
                  minutes == v.n - degrees * 100000
                  dec == degrees * 1000 + minutes \div 60
              IN  IF hemi = Str("S") \/ hemi = Str("W") THEN Num(-dec) ELSE Num(dec)

parseGPRMC(parts) ==
    LET speedKnots == IF Truthy(Part(parts, 7)) THEN ParseFloat(Part(parts, 7).s) ELSE Num(0)
    IN  Obj([type |-> Str("GPRMC"),
             timeStr |-> Part(parts, 1),
             status |-> Part(parts, 2),
             lat |-> dmToDecimal(Part(parts, 3), Part(parts, 4)),
             lon |-> dmToDecimal(Part(parts, 5), Part(parts, 6)),
             speedKnots |-> speedKnots,
             speedKmh |-> KnotsToKmh(speedKnots),
             track |-> IF Truthy(Part(parts, 8)) THEN ParseFloat(Part(parts, 8).s) ELSE Null,
             dateStr |-> IF Truthy(Part(parts, 9)) THEN Part(parts, 9) ELSE Null])

parseGPGGA(parts) ==
    Obj([type |-> Str("GPGGA"),
         timeStr |-> Part(parts, 1),
         lat |-> dmToDecimal(Part(parts, 2), Part(parts, 3)),
         lon |-> dmToDecimal(Part(parts, 4), Part(parts, 5)),
         fix |-> Part(parts, 6),
         sats |-> IF Truthy(Part(parts, 7)) THEN ParseInt(Part(parts, 7).s) ELSE Num(0),
         alt |-> IF Truthy(Part(parts, 9)) THEN ParseFloat(Part(parts, 9).s) ELSE Null])

parseGPVTG(parts) ==
    LET speedKnots == IF Truthy(Part(parts, 5)) THEN ParseFloat(Part(parts, 5).s) ELSE Num(0)
    IN  Obj([type |-> Str("GPVTG"),
             track |-> IF Truthy(Part(parts, 1)) THEN ParseFloat(Part(parts, 1).s) ELSE Null,
             speedKnots |-> speedKnots,
             speedKmh |-> IF Truthy(Part(parts, 7)) THEN ParseFloat(Part(parts, 7).s)
                          ELSE KnotsToKmh(speedKnots)])

\* the tokens that start with '$', and the tag left by replace(/^\$/, '')
TagOf ==
    "$GPRMC" :> "GPRMC" @@ "$GPGGA" :> "GPGGA" @@ "$GPVTG" :> "GPVTG" @@
    "$GPGSV" :> "GPGSV"

\* the tokens that start with '*' (the checksum suffix)
IsChecksum(tok) == tok \in {"*6A"}

\* line.split('*')[0]: the tokens before the checksum
RECURSIVE BeforeStar(_)
BeforeStar(line) ==
    IF line = <<>> \/ IsChecksum(Head(line)) THEN <<>>
    ELSE <<Head(line)>> \o BeforeStar(Tail(line))

\* the text of a line: its tokens joined by commas
RECURSIVE Join(_)
Join(line) ==
    IF line = <<>> THEN ""
    ELSE IF Len(line) = 1 THEN Head(line)
    ELSE Head(line) \o "," \o Join(Tail(line))

parseNMEALine(line) ==
    IF line = <<>> \/ Head(line) \notin DOMAIN TagOf THEN NullObj
    ELSE LET parts == BeforeStar(line)
             tag == TagOf[parts[1]]
         IN  CASE tag = "GPRMC" -> parseGPRMC(parts)
               [] tag = "GPGGA" -> parseGPGGA(parts)
               [] tag = "GPVTG" -> parseGPVTG(parts)
               [] OTHER -> Obj([type |-> Str(tag), raw |-> Str(Join(line))])


(***************************************************************************)
(* Position merger and line pipeline                                       *)
(***************************************************************************)
\* Object.assign({}, target, source): every own key of source is copied,
\* whatever its value (null, undefined and NaN included)
ObjectAssign(target, source) ==
    [f \in Fields |-> IF source[f] # Absent THEN source[f] ELSE target[f]]

\* a merger that refreshes receivedAt only for a fragment carrying a fix
MergeParsedFixOnly(st, parsed, t) ==
    IF parsed = NullObj THEN st
    ELSE [pos |-> IF parsed["lat"].k = "num"
                  THEN [ObjectAssign(st.pos, parsed) EXCEPT !["receivedAt"] = Iso(t)]
                  ELSE ObjectAssign(st.pos, parsed),
          raw |-> parsed]

\* mergeParsed(parsed) at clock reading t: the pair it leaves in
\* (latestPosition, lastParsedRaw)
MergeParsed(st, parsed, t) ==
    IF parsed = NullObj THEN st
    ELSE [pos |-> [ObjectAssign(st.pos, parsed) EXCEPT !["receivedAt"] = Iso(t)],
          raw |-> parsed]

\* String.prototype.trim on a line: blanks around the text are dropped
TrimTok == " $GPVTG" :> "$GPVTG"

Trim(line) ==
    IF line = <<" ">> THEN <<>>
    ELSE IF line # <<>> /\ Head(line) \in DOMAIN TrimTok
         THEN <<TrimTok[Head(line)]>> \o Tail(line)
         ELSE line

\* processLines(lines) at clock reading t
RECURSIVE ProcessLines(_, _, _)
ProcessLines(st, lines, t) ==
    IF lines = <<>> THEN st
    ELSE LET trimmed == Trim(Head(lines))
             parsed == parseNMEALine(trimmed)
             st1 == IF trimmed = <<>> THEN st
                    ELSE IF parsed # NullObj THEN MergeParsed(st, parsed, t)
                    ELSE st
         IN  ProcessLines(st1, Tail(lines), t)

(***************************************************************************)
(* The feed of the merger specification: the lines a receiver writes       *)
(***************************************************************************)
RmcFix == <<"$GPRMC", "120000", "A", "4807.038", "N", "01131.000", "E", "022.4", "084.4", "230394", "*6A">>
RmcVoid == <<"$GPRMC", "120001", "V", "", "", "", "", "", "", "230394">>
GgaFix == <<"$GPGGA", "120000", "4807.038", "N", "01131.000", "E", "1", "08", "0.9", "545.4", "M">>
GgaSouth == <<"$GPGGA", "120002", "3352.000", "S", "15112.000", "W", "1", "08", "0.9", "x", "M">>
GgaVoid == <<"$GPGGA", "120003", "", "", "", "", "0", "00", "", "", "M">>
VtgFull == <<"$GPVTG", "090.0", "T", "", "M", "010.0", "N", "018.5", "K">>
VtgCourse == <<" $GPVTG", "45">>
VtgVoid == <<"$GPVTG", "", "T", "", "M", "", "N", "", "K">>
GsvLine == <<"$GPGSV", "3", "1", "11">>
NoiseLine == <<"x", "90">>
BlankLine == <<" ">>

FeedLines ==
    {RmcFix, RmcVoid, GgaFix, GgaSouth, GgaVoid, VtgFull, VtgCourse, VtgVoid,
     GsvLine, NoiseLine, BlankLine}

vars ==
    <<latestPosition, lastParsedRaw, now, file, fileSize, pc, reads, consumed,
      truncated, startupFailed, resetPending, pollSize, clients, chan, sent,
      lastBroadcast, failed, recvVars, op>>

(***************************************************************************)
(* Actions shared by the specifications                                    *)
(***************************************************************************)
\* time passes
AdvanceClock ==
    /\ now < MaxTime
    /\ now' = now + 1
    /\ op' = [name |-> "AdvanceClock"]
    /\ UNCHANGED <<bcastVars, recvVars>>
    /\ UNCHANGED <<latestPosition, lastParsedRaw, tailVars, tailHist>>

\* processLines(<<line>>): one line of the feed goes through the pipeline
Ingest(line) ==
    LET st == ProcessLines([pos |-> latestPosition, raw |-> lastParsedRaw], <<line>>, now)
    IN  /\ latestPosition' = st.pos
        /\ lastParsedRaw' = st.raw
        /\ op' = [name |-> "Ingest", line |-> line, at |-> now]
        /\ UNCHANGED <<bcastVars, recvVars>>
        /\ UNCHANGED <<now, tailVars, tailHist>>

NoPoll == 0 - 1

\* part_000:151-152  null, for a position
NoPos == [null |-> TRUE]

\* part_000:62,69  L.map(...).setView([0, 0], 2), L.circleMarker([0, 0])
Origin == [lat |-> 0, lon |-> 0]

InitialZoom == 2

\* part_000:150  let animDuration = 600
InitialDuration == 600

\* the page's clock when the script has loaded
ClockStart == 2000

\* part_000:62-86,149-153  the page right after the script has run
PageInit ==
    /\ marker = Origin
    /\ trailPoints = <<>>
    /\ mapView = [center |-> Origin, zoom |-> InitialZoom]
    /\ animStart = 0
    /\ animDuration = InitialDuration
    /\ currentPos = NoPos
    /\ targetPos = NoPos
    /\ animating = FALSE
    /\ rafQueue = 0
    /\ frame = 0
    /\ clock = ClockStart
    /\ received = 0
    /\ lastReceived = NoPos
    /\ targetSetAt = 0
    /\ confirmed = <<>>

Channels == 1..MaxChannels

\* server.js:17-22,179  the server's variables when the module has loaded
ServerInit ==
    /\ latestPosition = NullObj
    /\ lastParsedRaw = NullObj
    /\ now = 1
    /\ file = <<>>
    /\ fileSize = 0
    /\ pc = "stat"
    /\ reads = EmptyBag
    /\ consumed = <<>>
    /\ truncated = FALSE
    /\ startupFailed = FALSE
    /\ resetPending = FALSE
    /\ pollSize = NoPoll
    /\ clients = <<>>
    /\ chan = [c \in Channels |-> "new"]
    /\ sent = [c \in Channels |-> <<>>]
    /\ lastBroadcast = 0
    /\ failed = [c \in Channels |-> FALSE]

Init ==
    /\ ServerInit
    /\ PageInit
    /\ op = [name |-> "Init"]

(***************************************************************************)
(* The merger on its own: lines of the feed go through processLines        *)
(***************************************************************************)
IngestFeed == \E line \in FeedLines : Ingest(line)

MergeNext == IngestFeed \/ AdvanceClock

SpecMerge == Init /\ [][MergeNext]_vars

(***************************************************************************)
(* Tail reader                                                             *)
(***************************************************************************)
\* What the receiver's logger writes, one token at a time: the token at
\* each position of the file. After a truncation it writes on from the cut.
Feed == <<"$GPVTG", "90", "\n", "$GPVTG", "45", "\n", "$GPGSV", "\n">>

FeedToken(i) == Feed[((i - 1) % Len(Feed)) + 1]

Min(a, b) == IF a < b THEN a ELSE b

\* chunk.split(/\r?\n/).filter(Boolean): the non-empty runs between "\n"
RECURSIVE SplitFrom(_, _)
SplitFrom(chunk, cur) ==
    IF chunk = <<>> THEN (IF cur = <<>> THEN <<>> ELSE <<cur>>)
    ELSE IF Head(chunk) = "\n"
         THEN (IF cur = <<>> THEN <<>> ELSE <<cur>>) \o SplitFrom(Tail(chunk), <<>>)
         ELSE SplitFrom(Tail(chunk), Append(cur, Head(chunk)))

SplitLines(chunk) == SplitFrom(chunk, <<>>)

\* history: the tokens at positions lo+1..hi were handed to processLines
Handed(cs, lo, hi) ==
    [i \in 1..Len(cs) |-> IF lo < i /\ i <= hi THEN Min(cs[i] + 1, 2) ELSE cs[i]]

\* another process appends the next token to the file
FileAppend ==
    /\ Len(file) < MaxFile
    /\ file' = Append(file, FeedToken(Len(file) + 1))
    /\ consumed' = Append(consumed, 0)
    /\ op' = [name |-> "Append"]
    /\ UNCHANGED <<bcastVars, recvVars>>
    /\ UNCHANGED <<mergeVars, fileSize, pc, reads, truncated, startupFailed,
                   resetPending, pollSize>>

\* another process truncates the file to n tokens (rotation: n = 0)
Truncate(n) ==
    /\ n < Len(file)
    /\ file' = SubSeq(file, 1, n)
    /\ consumed' = SubSeq(consumed, 1, n)
    /\ truncated' = TRUE
    /\ op' = [name |-> "Truncate"]
    /\ UNCHANGED <<bcastVars, recvVars>>
    /\ UNCHANGED <<mergeVars, fileSize, pc, reads, startupFailed, resetPending,
                   pollSize>>

\* server.js:143-145  const st = fs.statSync(NMEA_FILE); fileSize = st.size
StartupStat ==
    /\ pc = "stat"
    /\ fileSize' = Len(file)
    /\ pc' = IF Len(file) > 0 THEN "read" ELSE "watch"
    /\ op' = [name |-> "StartupStat"]
    /\ UNCHANGED <<bcastVars, recvVars>>
    /\ UNCHANGED <<mergeVars, file, reads, tailHist>>

\* server.js:143,150  statSync throws: the catch logs, fileSize stays 0
StartupStatFail ==
    /\ pc = "stat"
    /\ pc' = "watch"
    /\ op' = [name |-> "StartupStatFail"]
    /\ UNCHANGED <<bcastVars, recvVars>>
    /\ UNCHANGED <<mergeVars, file, fileSize, reads, tailHist>>

\* server.js:146-148  the whole file is read and its lines processed
StartupRead ==
    /\ pc = "read"
    /\ LET st == ProcessLines([pos |-> latestPosition, raw |-> lastParsedRaw],
                              SplitLines(file), now)
       IN  /\ latestPosition' = st.pos
           /\ lastParsedRaw' = st.raw
    /\ consumed' = Handed(consumed, 0, Len(file))
    /\ pc' = "watch"
    /\ op' = [name |-> "StartupRead"]
    /\ UNCHANGED <<bcastVars, recvVars>>
    /\ UNCHANGED <<now, file, fileSize, reads, truncated, startupFailed,
                   resetPending, pollSize>>

\* server.js:146,150  readFileSync throws: the catch logs, fileSize is set
StartupReadFail ==
    /\ pc = "read"
    /\ pc' = "watch"
    /\ startupFailed' = TRUE
    /\ op' = [name |-> "StartupReadFail"]
    /\ UNCHANGED <<bcastVars, recvVars>>
    /\ UNCHANGED <<mergeVars, file, fileSize, reads, consumed, truncated,
                   resetPending, pollSize>>

\* a callback that returns after resetting the offset, leaving the read of
\* the truncated file to the poll after it
PollDefersRead ==
    LET newSize == Len(file)
        reset == newSize < fileSize
        starts == ~reset /\ newSize > fileSize
    IN  /\ pc = "watch"
        /\ starts => BagCardinality(reads) < MaxReads
        /\ fileSize' = IF reset THEN 0 ELSE fileSize
        /\ reads' = IF starts
                    THEN reads (+) SetToBag({[start |-> fileSize, end |-> newSize]})
                    ELSE reads
        /\ resetPending' = IF starts THEN FALSE ELSE (resetPending \/ reset)
        /\ pollSize' = newSize
        /\ op' = [name |-> "Poll", reset |-> reset]
        /\ UNCHANGED <<bcastVars, recvVars>>
        /\ UNCHANGED <<mergeVars, file, pc, consumed, truncated, startupFailed>>

\* server.js:155-176  the fs.watchFile callback, up to the stream's creation
Poll ==
    LET newSize == Len(file)
        base == IF newSize < fileSize THEN 0 ELSE fileSize
        starts == newSize > base
    IN  /\ pc = "watch"
        /\ starts => BagCardinality(reads) < MaxReads
        /\ fileSize' = base
        /\ reads' = IF starts THEN reads (+) SetToBag({[start |-> base, end |-> newSize]})
                    ELSE reads
        /\ resetPending' = IF starts THEN FALSE
                           ELSE (resetPending \/ newSize < fileSize)
        /\ pollSize' = newSize
        /\ op' = [name |-> "Poll", reset |-> newSize < fileSize]
        /\ UNCHANGED <<bcastVars, recvVars>>
        /\ UNCHANGED <<mergeVars, file, pc, consumed, truncated, startupFailed>>

\* server.js:165-170  the stream r delivers its data and ends
ReadEnd(r) ==
    LET hi == Min(r.end, Len(file))
        chunk == SubSeq(file, r.start + 1, hi)
        st == ProcessLines([pos |-> latestPosition, raw |-> lastParsedRaw],
                           SplitLines(chunk), now)
    IN  /\ latestPosition' = st.pos
        /\ lastParsedRaw' = st.raw
        /\ fileSize' = r.end
        /\ consumed' = Handed(consumed, r.start, hi)
        /\ reads' = reads (-) SetToBag({r})
        /\ op' = [name |-> "ReadEnd"]
        /\ UNCHANGED <<bcastVars, recvVars>>
        /\ UNCHANGED <<now, file, pc, truncated, startupFailed, resetPending, pollSize>>

\* an error handler that advances the offset past the range it failed to read
ReadErrorAdvances(r) ==
    /\ reads' = reads (-) SetToBag({r})
    /\ fileSize' = r.end
    /\ pollSize' = NoPoll
    /\ op' = [name |-> "ReadError"]
    /\ UNCHANGED <<bcastVars, recvVars>>
    /\ UNCHANGED <<mergeVars, file, pc, consumed, truncated, startupFailed,
                   resetPending>>

\* server.js:171  the stream r fails: the error is logged
ReadError(r) ==
    /\ reads' = reads (-) SetToBag({r})
    /\ pollSize' = NoPoll
    /\ op' = [name |-> "ReadError"]
    /\ UNCHANGED <<bcastVars, recvVars>>
    /\ UNCHANGED <<mergeVars, file, fileSize, pc, consumed, truncated, startupFailed,
                   resetPending>>

FileTruncate == \E n \in 0..MaxFile : Truncate(n)

StreamEnd == \E r \in BagToSet(reads) : ReadEnd(r)

StreamError == \E r \in BagToSet(reads) : ReadError(r)

TailNext ==
    \/ FileAppend
    \/ FileTruncate
    \/ StartupStat
    \/ StartupStatFail
    \/ StartupRead
    \/ StartupReadFail
    \/ Poll
    \/ StreamEnd
    \/ StreamError

SpecTail == Init /\ [][TailNext]_vars

(***************************************************************************)
(* SSE endpoint and broadcaster                                            *)
(***************************************************************************)
\* server.js:26  BROADCAST_INTERVAL_MS, taken as the unit of the clock
BroadcastInterval == 1

\* JSON.stringify of an object: keys holding undefined are left out, NaN
\* is written as null
ToJSON(obj) ==
    [f \in Fields |-> CASE obj[f].k = "undefined" -> Absent
                        [] obj[f].k = "NaN" -> Null
                        [] OTHER -> obj[f]]

\* server.js:102  { snapshot: true, parsed: latestPosition }
SnapshotMsg(pos) == [kind |-> "snapshot", parsed |-> ToJSON(pos), serverTime |-> Absent]

\* server.js:187  { parsed: latestPosition, serverTime: new Date().toISOString() }
UpdateMsg(pos, t) == [kind |-> "update", parsed |-> ToJSON(pos), serverTime |-> Iso(t)]

InSeq(x, seq) == \E i \in 1..Len(seq) : seq[i] = x

RECURSIVE Without(_, _)
Without(seq, x) ==
    IF seq = <<>> THEN <<>>
    ELSE IF Head(seq) = x THEN Without(Tail(seq), x)
    ELSE <<Head(seq)>> \o Without(Tail(seq), x)

\* server.js:112-118  the for-of loop over the Set from entry i on: entries
\* is the Set's entry list when the loop began; a Set iterator visits every
\* entry that is still in the Set, whatever was deleted before it
RECURSIVE BroadcastFrom(_, _, _, _, _)
BroadcastFrom(entries, i, st, payload, fails) ==
    IF i > Len(entries) THEN st
    ELSE LET res == entries[i] IN
         IF ~InSeq(res, st.clients) THEN BroadcastFrom(entries, i + 1, st, payload, fails)
         ELSE IF res \in fails
              THEN BroadcastFrom(entries, i + 1,
                                 [st EXCEPT !.clients = Without(st.clients, res)],
                                 payload, fails)
              ELSE BroadcastFrom(entries, i + 1,
                                 [st EXCEPT !.sent[res] = Append(@, payload)],
                                 payload, fails)

\* server.js:110-119  broadcast(obj): fails is the set of subscribers whose
\* res.write throws
Broadcast(cl, log, payload, fails) ==
    BroadcastFrom(cl, 1, [clients |-> cl, sent |-> log], payload, fails)

TickAlways(pos, t, last) == ~(t - last < BroadcastInterval)

\* server.js:181-184  the two early returns of the timer callback
TickSends(pos, t, last) ==
    /\ pos # NullObj
    /\ ~(t - last < BroadcastInterval)

SnapshotNever(pos) == FALSE

\* server.js:100  if (latestPosition)
SnapshotDue(pos) == pos # NullObj

\* server.js:91-108  GET /events for channel c: headerOk and snapshotOk say
\* whether res.write('\n') and the snapshot's res.write return or throw
Subscribe(c, headerOk, snapshotOk) ==
    /\ chan[c] = "new"
    /\ \A d \in Channels : d < c => chan[d] # "new"
    /\ IF ~headerOk
       THEN \* the exception leaves the handler: the response is closed
            /\ chan' = [chan EXCEPT ![c] = "closed"]
            /\ UNCHANGED <<clients, sent, failed>>
       ELSE /\ chan' = [chan EXCEPT ![c] = "open"]
            /\ IF SnapshotDue(latestPosition)
               THEN IF snapshotOk
                    THEN /\ sent' = [sent EXCEPT ![c] = Append(@, SnapshotMsg(latestPosition))]
                         /\ UNCHANGED failed
                    ELSE \* catch (e) { /* ignore */ }
                         /\ failed' = [failed EXCEPT ![c] = TRUE]
                         /\ UNCHANGED sent
               ELSE UNCHANGED <<sent, failed>>
            /\ clients' = Append(clients, c)
    /\ op' = [name |-> "Subscribe", c |-> c]
    /\ UNCHANGED <<recvVars, mergeVars, tailVars, tailHist, lastBroadcast>>

\* server.js:107  req.on('close', () => clients.delete(res))
Disconnect(c) ==
    /\ chan[c] = "open"
    /\ chan' = [chan EXCEPT ![c] = "closed"]
    /\ clients' = Without(clients, c)
    /\ op' = [name |-> "Disconnect"]
    /\ UNCHANGED <<recvVars, mergeVars, tailVars, tailHist, sent, lastBroadcast, failed>>

\* server.js:180-188  the setInterval callback
Tick(fails) ==
    /\ IF TickSends(latestPosition, now, lastBroadcast)
       THEN LET st == Broadcast(clients, sent, UpdateMsg(latestPosition, now), fails)
            IN  /\ \A c \in Channels : InSeq(c, clients) => Len(sent[c]) < MaxMsgs
                /\ lastBroadcast' = now
                /\ clients' = st.clients
                /\ sent' = st.sent
                /\ failed' = [c \in Channels |-> failed[c] \/ c \in fails]
                /\ op' = [name |-> "Tick", sends |-> TRUE]
       ELSE /\ fails = {}
            /\ op' = [name |-> "Tick", sends |-> FALSE]
            /\ UNCHANGED <<clients, sent, lastBroadcast, failed>>
    /\ UNCHANGED <<recvVars, mergeVars, tailVars, tailHist, chan>>

\* the lines the feed delivers while subscribers come and go
BroadcastLines == {<<"$GPVTG", "90">>}

IngestLive == \E line \in BroadcastLines : Ingest(line)

Connect == \E c \in Channels, headerOk \in BOOLEAN, snapshotOk \in BOOLEAN : Subscribe(c, headerOk, snapshotOk)

Close == \E c \in Channels : Disconnect(c)

Timer == \E fails \in SUBSET {c \in Channels : InSeq(c, clients)} : Tick(fails)

BroadcastNext ==
    \/ IngestLive
    \/ AdvanceClock
    \/ Connect
    \/ Close
    \/ Timer

SpecBroadcast == Init /\ [][BroadcastNext]_vars

(***************************************************************************)
(* Receiver: the page's script (src/unnamed/part_000)                      *)
(***************************************************************************)
serverVars == <<mergeVars, tailVars, tailHist, bcastVars>>

MaxUpdates == 3
MaxTicks == 4
MaxAge == 10000

\* part_000:159  map.getZoom() === 2
BootstrapZoom == 2

\* part_000:163  map.setView([p.lat, p.lon], 14)
FixZoom == 14

\* part_000:213  if (map.getZoom() < 13) map.panTo(...)
FollowZoom == 13

\* part_000:194  the cap of the trail
TrailCap == 2000

\* part_000:173  Math.max(120, Math.min(1200, 700 - ...))
BaseDuration == 700

MinDuration == 120

MaxDuration == 1200

\* p.receivedAt of a message that has none
NoStamp == 0 - 1

\* obj.parsed missing, null or without lat and lon
NoParsed == [receivedAt |-> NoStamp]

\* part_000:156,234  lat and lon are there and not null
HasLatLon(p) == {"lat", "lon"} \subseteq DOMAIN p

Max(a, b) == IF a > b THEN a ELSE b

LatLon(p) == [lat |-> p.lat, lon |-> p.lon]

\* part_000:172  p.receivedAt ? Math.max(0, Date.now() - new Date(...)) : 0
AgeMs(receivedAt, t) == IF receivedAt = NoStamp THEN 0 ELSE Max(0, t - receivedAt)

\* a duration computed from the whole age, not from half of it
AnimDurationUnhalved(ageMs) ==
    Max(MinDuration, Min(MaxDuration, BaseDuration - ageMs))

\* part_000:173  Math.max(120, Math.min(1200, 700 - Math.floor(ageMs / 2)))
AnimDuration(ageMs) ==
    Max(MinDuration, Min(MaxDuration, BaseDuration - (ageMs \div 2)))

\* a trail that is never cut
PushUncapped(trail, pt) == Append(trail, pt)

\* part_000:192-194  push, then splice(0, length - 2000) once over 2000
PushCapped(trail, pt) ==
    LET t == Append(trail, pt)
    IN  IF Len(t) > TrailCap THEN SubSeq(t, Len(t) - TrailCap + 1, Len(t)) ELSE t

\* a completion test that lets the fraction 1 through to the interpolation
FinishedLate(e, d) == e > d

\* part_000:188-190  t = (now - animStart) / animDuration; t >= 1
Finished(e, d) == e >= d

\* an ease-out branch without its "-1 +"
EaseNumNoOffset(e, d) == IF 2 * e < d THEN 2 * e * e ELSE 4 * e * d - 2 * e * e

\* part_000:206  easeT = t < 0.5 ? 2*t*t : -1 + (4 - 2*t)*t, for t = e/d,
\* as the numerator of a fraction of d*d
EaseNum(e, d) ==
    IF 2 * e < d THEN 2 * e * e ELSE 4 * e * d - 2 * e * e - d * d

\* part_000:208-209  from + (to - from) * easeT
Lerp(from, to, e, d) == from + (((to - from) * EaseNum(e, d)) \div (d * d))

Interpolate(from, to, e, d) ==
    [lat |-> Lerp(from.lat, to.lat, e, d), lon |-> Lerp(from.lon, to.lon, e, d)]

\* part_000:155-176  setTargetPosition(p)
SetTargetPosition(p) ==
    IF ~HasLatLon(p)
    THEN /\ op' = [name |-> "Message", how |-> "ignored"]
         /\ UNCHANGED <<animVars, marker, trailPoints, mapView, rafQueue,
                        lastReceived, targetSetAt, confirmed>>
    ELSE IF /\ marker = Origin
            /\ trailPoints = <<>>
            /\ mapView.zoom = BootstrapZoom
    THEN /\ marker' = LatLon(p)
         /\ trailPoints' = Append(trailPoints, LatLon(p))
         /\ mapView' = [center |-> LatLon(p), zoom |-> FixZoom]
         /\ lastReceived' = LatLon(p)
         /\ confirmed' = Append(confirmed, LatLon(p))
         /\ op' = [name |-> "Message", how |-> "bootstrap"]
         /\ UNCHANGED <<animVars, rafQueue, targetSetAt>>
    ELSE /\ currentPos' = marker
         /\ targetPos' = p
         /\ animDuration' = AnimDuration(AgeMs(p.receivedAt, clock))
         /\ rafQueue' = IF animating THEN rafQueue ELSE rafQueue + 1
         /\ lastReceived' = LatLon(p)
         /\ targetSetAt' = clock
         /\ op' = [name |-> "Message", how |-> "target"]
         /\ UNCHANGED <<animStart, animating, marker, trailPoints, mapView, confirmed>>

\* part_000:223-242  es.onmessage: both branches that act on the map end in
\* setTargetPosition; updateUIFields only writes the page's text fields
OnMessage(obj) ==
    /\ frame = 0
    /\ received < MaxUpdates
    /\ received' = received + 1
    /\ IF obj.snapshot /\ obj.parsed # NoParsed
       THEN SetTargetPosition(obj.parsed)
       ELSE IF HasLatLon(obj.parsed)
            THEN SetTargetPosition(obj.parsed)
            ELSE /\ op' = [name |-> "Message", how |-> "ignored"]
                 /\ UNCHANGED <<animVars, marker, trailPoints, mapView, rafQueue,
                                lastReceived, targetSetAt, confirmed>>
    /\ UNCHANGED <<frame, clock, serverVars>>

\* part_000:178-218  animateMarker(), one callback of the frame in progress
AnimateMarker ==
    /\ frame > 0
    /\ frame' = frame - 1
    /\ IF currentPos = NoPos \/ targetPos = NoPos
       THEN /\ animating' = FALSE
            /\ op' = [name |-> "Frame", how |-> "idle"]
            /\ UNCHANGED <<animStart, animDuration, currentPos, targetPos, marker,
                           trailPoints, mapView, rafQueue, confirmed>>
       ELSE LET start == IF animStart = 0 THEN clock ELSE animStart
                e == clock - start
            IN  IF Finished(e, animDuration)
                THEN /\ marker' = LatLon(targetPos)
                     /\ trailPoints' = PushCapped(trailPoints, LatLon(targetPos))
                     /\ confirmed' = Append(confirmed, LatLon(targetPos))
                     /\ animStart' = 0
                     /\ currentPos' = NoPos
                     /\ targetPos' = NoPos
                     /\ animating' = FALSE
                     /\ op' = [name |-> "Frame", how |-> "done"]
                     /\ UNCHANGED <<animDuration, mapView, rafQueue>>
                ELSE LET pt == Interpolate(currentPos, targetPos, e, animDuration)
                     IN  /\ animating' = TRUE
                         /\ animStart' = start
                         /\ marker' = pt
                         /\ mapView' = IF mapView.zoom < FollowZoom
                                       THEN [mapView EXCEPT !.center = pt]
                                       ELSE mapView
                         /\ rafQueue' = rafQueue + 1
                         /\ op' = [name |-> "Frame", how |-> "step"]
                         /\ UNCHANGED <<animDuration, currentPos, targetPos,
                                        trailPoints, confirmed>>
    /\ UNCHANGED <<clock, received, lastReceived, targetSetAt, serverVars>>

\* the browser starts a frame: the callbacks requested so far are the ones
\* it runs, in order; a callback requested while they run waits for the
\* frame after
FrameBegin ==
    /\ frame = 0
    /\ rafQueue > 0
    /\ frame' = rafQueue
    /\ rafQueue' = 0
    /\ op' = [name |-> "FrameBegin"]
    /\ UNCHANGED <<animVars, marker, trailPoints, mapView, clock, pageHist, serverVars>>

\* the steps by which the page's clock is seen to advance
ClockSteps == {100}

\* time passes on the page
ClockTick(d) ==
    /\ clock + d <= ClockStart + MaxTicks * d
    /\ clock' = clock + d
    /\ op' = [name |-> "ClockTick"]
    /\ UNCHANGED <<animVars, marker, trailPoints, mapView, rafQueue, frame, pageHist,
                   serverVars>>

\* the zoom levels the viewer picks
ZoomLevels == {2, 3}

\* the viewer zooms the map
UserZoom(z) ==
    /\ frame = 0
    /\ z # mapView.zoom
    /\ mapView' = [mapView EXCEPT !.zoom = z]
    /\ op' = [name |-> "UserZoom"]
    /\ UNCHANGED <<animVars, marker, trailPoints, rafQueue, frame, clock, pageHist,
                   serverVars>>

\* the positions and delays of the messages the page is sent
Positions == {[lat |-> 640, lon |-> 0 - 320], [lat |-> 0 - 160, lon |-> 480]}

Delays == {600, 1000}

Updates ==
    {[lat |-> p.lat, lon |-> p.lon, receivedAt |-> clock - d] :
        p \in Positions, d \in Delays} \cup {NoParsed}

Message == \E snapshot \in BOOLEAN : \E parsed \in Updates :
               OnMessage([snapshot |-> snapshot, parsed |-> parsed])

TimePasses == \E d \in ClockSteps : ClockTick(d)

Zoom == \E z \in ZoomLevels : UserZoom(z)

ReceiverNext ==
    \/ Message
    \/ FrameBegin
    \/ AnimateMarker
    \/ TimePasses
    \/ Zoom

SpecReceiver == Init /\ [][ReceiverNext]_vars

(***************************************************************************)
(* The duration on its own: the page has placed its first fix, some time   *)
(* has passed, and updates of different ages come in                       *)
(***************************************************************************)
FirstFix == [lat |-> 640, lon |-> 0 - 320]

\* the page after the bootstrap to FirstFix, up to MaxAge ms later
InitAged ==
    /\ ServerInit
    /\ marker = FirstFix
    /\ trailPoints = <<FirstFix>>
    /\ mapView = [center |-> FirstFix, zoom |-> FixZoom]
    /\ animStart = 0
    /\ animDuration = InitialDuration
    /\ currentPos = NoPos
    /\ targetPos = NoPos
    /\ animating = FALSE
    /\ rafQueue = 0
    /\ frame = 0
    /\ clock \in ClockStart..(ClockStart + MaxAge)
    /\ received = 1
    /\ lastReceived = FirstFix
    /\ targetSetAt = 0
    /\ confirmed = <<FirstFix>>
    /\ op = [name |-> "Init"]

\* updates stamped when the page loaded, stamped ahead of the page's clock
\* (the server's clock runs fast) and not stamped at all
StampedUpdates ==
    {[lat |-> 0 - 160, lon |-> 480, receivedAt |-> r] :
        r \in {ClockStart, ClockStart + MaxAge + 1, NoStamp}}

AgedMessage == \E parsed \in StampedUpdates :
                   OnMessage([snapshot |-> FALSE, parsed |-> parsed])

SpecDuration == InitAged /\ [][AgedMessage]_vars

(***************************************************************************)
(* The interpolation on its own: an animation is in flight and a frame is  *)
(* due at any time between its start and its end                           *)
(***************************************************************************)
FlightDurations == {MinDuration, AnimDuration(1000), BaseDuration}

FlightEnds == {Origin, FirstFix, [lat |-> 0 - 160, lon |-> 480]}

\* the page in the middle of an animation from one point to another
InitMidFlight ==
    /\ ServerInit
    /\ animStart = ClockStart
    /\ animDuration \in FlightDurations
    /\ clock \in animStart..(animStart + animDuration)
    /\ currentPos \in FlightEnds
    /\ \E to \in FlightEnds :
          targetPos = [lat |-> to.lat, lon |-> to.lon, receivedAt |-> NoStamp]
    /\ marker = currentPos
    /\ trailPoints = <<FirstFix>>
    /\ mapView = [center |-> FirstFix, zoom |-> FixZoom]
    /\ animating = TRUE
    /\ rafQueue = 1
    /\ frame = 0
    /\ received = 2
    /\ lastReceived = LatLon(targetPos)
    /\ targetSetAt = animStart
    /\ confirmed = <<FirstFix>>
    /\ op = [name |-> "Init"]

FlightNext ==
    \/ FrameBegin
    \/ AnimateMarker

SpecInterpolate == InitMidFlight /\ [][FlightNext]_vars

(***************************************************************************)
(* The trail on its own: the page has confirmed many positions, the i-th   *)
(* of them at latitude i, and goes on receiving                            *)
(***************************************************************************)
TrailPoint(i) == [lat |-> i, lon |-> 0]

\* how many positions the page has confirmed so far
TrailStarts == {0, TrailCap - 2, TrailCap - 1, TrailCap, TrailCap + 1, TrailCap + 499}

\* the page after m confirmed positions
InitLongTrail ==
    \E m \in TrailStarts :
        IF m = 0 THEN Init
        ELSE /\ ServerInit
             /\ confirmed = [i \in 1..m |-> TrailPoint(i)]
             /\ trailPoints = [i \in 1..Min(m, TrailCap) |->
                                  TrailPoint(m - Min(m, TrailCap) + i)]
             /\ marker = TrailPoint(m)
             /\ mapView = [center |-> TrailPoint(1), zoom |-> FixZoom]
             /\ animStart = 0
             /\ animDuration = InitialDuration
             /\ currentPos = NoPos
             /\ targetPos = NoPos
             /\ animating = FALSE
             /\ rafQueue = 0
             /\ frame = 0
             /\ clock = ClockStart
             /\ received = 0
             /\ lastReceived = TrailPoint(m)
             /\ targetSetAt = 0
             /\ op = [name |-> "Init"]

\* the next position of the track
NextFix ==
    \E d \in Delays :
        OnMessage([snapshot |-> FALSE,
                   parsed |-> [lat |-> Len(confirmed) + 1, lon |-> 0,
                               receivedAt |-> clock - d]])

TrailNext ==
    \/ NextFix
    \/ FrameBegin
    \/ AnimateMarker
    \/ TimePasses

SpecTrail == InitLongTrail /\ [][TrailNext]_vars

(***************************************************************************)
(* Properties                                                              *)
(***************************************************************************)
\* a value that is known: neither missing, null, undefined nor NaN
IsKnown(v) == v.k \in {"num", "str", "time"}

\* the fields of the merged position that viewers are sent
PositionFields == {"lat", "lon", "speedKmh", "track", "sats", "alt"}

\* the tag of a line as the pipeline sees it, "" when it is no sentence
TagOfLine(line) ==
    LET t == Trim(line)
    IN  IF t = <<>> \/ Head(t) \notin DOMAIN TagOf THEN "" ELSE TagOf[Head(t)]

RecognizedTags == {"GPRMC", "GPGGA", "GPVTG"}

\* C1: sticky merge. No step changes a field of the merged position that
\* holds a known value into one that is missing, null or not a number: a
\* fragment overwrites only the fields it carries.
C1_StickyMerge ==
    [][\A f \in PositionFields :
          IsKnown(latestPosition[f]) => IsKnown(latestPosition'[f])]_vars

\* C2: a '$' line whose tag is not RMC, GGA or VTG leaves the merged
\* position exactly as it was (nothing written, receivedAt not refreshed,
\* an empty position stays empty).
C2_UnknownNotMerged ==
    [][(op'.name = "Ingest" /\ TagOfLine(op'.line) \notin RecognizedTags \cup {""})
          => latestPosition' = latestPosition]_vars

\* C7: every merge of a recognized fragment sets receivedAt to the clock
\* reading of that merge, a VTG with only course and speed included; a line
\* that is no sentence leaves it alone; receivedAt never decreases.
C7_ReceivedAtStamped ==
    [][/\ (op'.name = "Ingest" /\ TagOfLine(op'.line) \in RecognizedTags)
             => latestPosition'["receivedAt"] = Iso(now)
       /\ (op'.name = "Ingest" /\ TagOfLine(op'.line) = "")
             => latestPosition'["receivedAt"] = latestPosition["receivedAt"]
       /\ latestPosition # NullObj
             => /\ latestPosition'["receivedAt"].k = "time"
                /\ latestPosition'["receivedAt"].n >= latestPosition["receivedAt"].n]_vars

\* a VTG carrying only course and speed was merged into a position without
\* a fix, after the clock had moved on, and receivedAt is that merge's time
C7_Witness ==
    /\ op.name = "Ingest"
    /\ op.line = VtgFull
    /\ op.at > 1
    /\ latestPosition["lat"] = Absent
    /\ latestPosition["receivedAt"] = Iso(op.at)

\* C3: exactly-once consumption. While the file was never truncated and the
\* startup read did not fail, no token of the file is handed to the line
\* pipeline twice, and once the watcher runs every token below the stored
\* offset has been handed to it.
C3_ExactlyOnce ==
    (~truncated /\ ~startupFailed)
        => /\ \A i \in 1..Len(file) : consumed[i] <= 1
           /\ pc = "watch" => \A i \in 1..Min(fileSize, Len(file)) : consumed[i] >= 1

\* C4: truncation handling. A poll that sees a size below the stored offset
\* sets the offset to 0; the next read that is started after it, in that
\* poll or a later one, starts at 0; a read that ends leaves the offset at
\* the size its poll saw.
C4_TruncationRestart ==
    [][/\ (op'.name = "Poll" /\ Len(file) < fileSize) => fileSize' = 0
       /\ (op'.name = "Poll" /\ (Len(file) < fileSize \/ resetPending)
              /\ BagCardinality(reads') > BagCardinality(reads))
             => \E r \in BagToSet(reads') :
                   /\ r.start = 0
                   /\ CopiesIn(r, reads') > CopiesIn(r, reads)
       /\ op'.name = "ReadEnd" => \E r \in BagToSet(reads) : fileSize' = r.end]_vars

\* C5: a poll that sees the size the poll before it saw starts no read and
\* leaves the stored offset alone, whether or not the earlier poll's read
\* has completed.
C5_NoopPoll ==
    [][(op'.name = "Poll" /\ pollSize = Len(file))
          => (reads' = reads /\ fileSize' = fileSize)]_vars

\* once the watcher runs, nothing below the stored offset was passed over
NoSkip ==
    (~truncated /\ ~startupFailed /\ pc = "watch")
        => \A i \in 1..Min(fileSize, Len(file)) : consumed[i] >= 1

\* C6: read-error recovery. A read that fails merges nothing and leaves the
\* stored offset where it was; the watcher keeps running and the next poll
\* that finds the file beyond the offset reads from the offset up to the
\* size it sees; so nothing below the offset is passed over.
C6_ReadErrorRecovery ==
    /\ []NoSkip
    /\ [][/\ op'.name = "ReadError"
                => /\ latestPosition' = latestPosition
                   /\ lastParsedRaw' = lastParsedRaw
                   /\ consumed' = consumed
                   /\ fileSize' = fileSize
                   /\ pc' = "watch"
          /\ (op'.name = "Poll" /\ Len(file) > fileSize)
                => reads' = reads (+) SetToBag({[start |-> fileSize, end |-> Len(file)]})]_vars

\* a read failed and left a range of the file unread behind the offset
C6_Witness ==
    /\ op.name = "ReadError"
    /\ reads = EmptyBag
    /\ fileSize < Len(file)
    /\ \E i \in 1..Len(file) : consumed[i] = 0

InClients(c) == InSeq(c, clients)

\* C8: while the merged position has never been populated, no message has
\* been written to any channel.
C8_SilentBeforeFirstMerge ==
    latestPosition = NullObj => \A c \in Channels : sent[c] = <<>>

\* the timer fired with subscribers in the set and nothing merged yet
C8_Witness ==
    /\ latestPosition = NullObj
    /\ op.name = "Tick"
    /\ Len(clients) = MaxChannels
    /\ now > 1

\* C9: snapshot on subscribe. A channel whose subscription is accepted
\* while the merged position is populated has, unless the write fails,
\* exactly the snapshot of that position on it when the handler returns; a
\* channel that subscribes while it is empty has nothing; no other step
\* writes a snapshot, so a snapshot is never preceded by another message
\* and never repeated.
C9_SnapshotFirst ==
    /\ [](\A c \in Channels : \A i \in 1..Len(sent[c]) :
             sent[c][i].kind = "snapshot" => i = 1)
    /\ [][/\ (op'.name = "Subscribe" /\ chan'[op'.c] = "open")
                => IF latestPosition = NullObj
                   THEN sent'[op'.c] = <<>>
                   ELSE \/ sent'[op'.c] = <<SnapshotMsg(latestPosition)>>
                        \/ (failed'[op'.c] /\ sent'[op'.c] = <<>>)
          /\ op'.name # "Subscribe"
                => \A c \in Channels :
                      \A i \in (Len(sent[c]) + 1)..Len(sent'[c]) :
                         sent'[c][i].kind = "update"]_vars

\* a channel got its snapshot and then a periodic update of a later position
C9_Witness ==
    \E c \in Channels :
        /\ Len(sent[c]) = 2
        /\ sent[c][1].kind = "snapshot"
        /\ sent[c][2].kind = "update"
        /\ sent[c][2].parsed # sent[c][1].parsed

\* C10: send-failure isolation. A subscriber to which a send has failed is
\* not in the set afterwards and gets no later message; in a broadcast every
\* subscriber that stays in the set gets the message exactly once, and one
\* that leaves it is one whose send failed.
C10_SendFailureIsolation ==
    [][/\ \A c \in Channels : failed'[c] => ~InSeq(c, clients')
       /\ \A c \in Channels : failed[c] => sent'[c] = sent[c]
       /\ (op'.name = "Tick" /\ op'.sends)
             => \A c \in Channels :
                   InClients(c)
                      => IF InSeq(c, clients')
                         THEN sent'[c] = Append(sent[c], UpdateMsg(latestPosition, now))
                         ELSE failed'[c] /\ sent'[c] = sent[c]]_vars

\* the tokens lo+1..hi of the file f are whole lines: the range starts
\* right after a line terminator (or at the start of the file) and ends with
\* one
WholeLines(f, lo, hi) ==
    hi > lo => /\ (lo = 0 \/ f[lo] = "\n")
               /\ f[hi] = "\n"

\* C16: only whole lines reach the parser. Every range of the file that a
\* read hands to processLines (the startup read, or a stream that ends) is
\* made of complete newline-terminated lines: no prefix of a line that is
\* still being written, and no suffix of one, is parsed and merged as a line
\* of its own.
C16_WholeLinesOnly ==
    [][/\ op'.name = "StartupRead" => WholeLines(file, 0, Len(file))
       /\ op'.name = "ReadEnd"
             => \E r \in BagToSet(reads) :
                   /\ reads' = reads (-) SetToBag({r})
                   /\ WholeLines(file, r.start, Min(r.end, Len(file)))]_vars

\* C19 as stated: a poll that sees a size below the stored offset sets the
\* offset to 0 and starts no read; the poll after it, if the file is not
\* empty, starts the read of the file from 0.
C19_TruncationPollReadsNothing ==
    [][/\ (op'.name = "Poll" /\ Len(file) < fileSize)
             => (fileSize' = 0 /\ reads' = reads)
       /\ (op'.name = "Poll" /\ resetPending /\ Len(file) > 0)
             => reads' = reads (+) SetToBag({[start |-> 0, end |-> Len(file)]})]_vars

\* C19 as amended: a poll that sees a size below the stored offset sets the
\* offset to 0 and, in that same poll, starts the read of the range from 0
\* to the size it saw when that size is not 0; it starts no read when the
\* file is empty.
C19_TruncationPollReadsFromStart ==
    [][(op'.name = "Poll" /\ Len(file) < fileSize)
          => /\ fileSize' = 0
             /\ reads' = IF Len(file) > 0
                         THEN reads (+) SetToBag({[start |-> 0, end |-> Len(file)]})
                         ELSE reads]_vars

\* a poll found the file cut to a shorter, non-empty one and started the
\* read of it from 0
C19_Witness ==
    /\ op.name = "Poll"
    /\ op.reset
    /\ fileSize = 0
    /\ Len(file) > 0
    /\ BagIn([start |-> 0, end |-> Len(file)], reads)

\* C11: bootstrap rule. A message with lat and lon that finds the marker at
\* (0,0) and the trail empty is applied at once, whatever the zoom: the
\* marker is at the message's position and the view is centred on it when
\* the handler returns, and no animation was started (no frame requested,
\* no animation variable changed).
C11_Bootstrap ==
    [][(/\ op'.name = "Message"
        /\ op'.how # "ignored"
        /\ marker = Origin
        /\ trailPoints = <<>>)
          => /\ marker' = lastReceived'
             /\ mapView'.center = lastReceived'
             /\ rafQueue' = rafQueue
             /\ UNCHANGED animVars]_vars

\* C12: retargeting mid-flight. An update that arrives while an animation
\* runs makes its position the target and the displayed point the start,
\* and resets the start time (to "not started", or to now), so that every
\* frame that interpolates measures its elapsed time from no earlier than
\* the latest retargeting: the fraction of the retargeted animation starts
\* at 0 again and the marker stays at the displayed point.
C12_RetargetRestarts ==
    [][/\ (op'.name = "Message" /\ op'.how = "target" /\ animating)
             => /\ LatLon(targetPos') = lastReceived'
                /\ currentPos' = marker
                /\ animStart' \in {0, clock}
       /\ (op'.name = "Frame" /\ op'.how = "step")
             => animStart' >= targetSetAt]_vars

Clamp(x, lo, hi) == IF x < lo THEN lo ELSE IF x > hi THEN hi ELSE x

\* C13 as stated: the duration of an animation started by an update of age
\* a >= 0 is clamp(700 - a/2, 120, 1200) ms (compared in half milliseconds,
\* a/2 being no whole number for an odd a); it is 700, 200 and 120 ms for
\* the ages 0, 2000 and 10000 ms.
C13_DurationClamp ==
    [][(op'.name = "Message" /\ op'.how = "target")
          => LET a == AgeMs(targetPos'.receivedAt, clock)
             IN  /\ 2 * animDuration'
                      = Clamp(2 * BaseDuration - a, 2 * MinDuration, 2 * MaxDuration)
                 /\ a = 0 => animDuration' = 700
                 /\ a = 2000 => animDuration' = 200
                 /\ a = 10000 => animDuration' = 120]_vars

\* C13 as amended: the duration is clamp(700 - floor(a/2), 120, 1200) ms,
\* where the age a is 0 for an update without a timestamp or with one ahead
\* of the page's clock; it is 700, 120 and 120 ms for the ages 0, 2000 and
\* 10000 ms.
C13_DurationClampFloor ==
    [][(op'.name = "Message" /\ op'.how = "target")
          => LET stamp == targetPos'.receivedAt
                 a == IF stamp = NoStamp \/ stamp > clock THEN 0 ELSE clock - stamp
                 half == IF a % 2 = 0 THEN a \div 2 ELSE (a - 1) \div 2
             IN  /\ animDuration' = Clamp(BaseDuration - half, MinDuration, MaxDuration)
                 /\ a = 0 => animDuration' = 700
                 /\ a = 2000 => animDuration' = 120
                 /\ a = 10000 => animDuration' = 120]_vars

\* an update 2000 ms old has set the duration
C13_Witness ==
    /\ op.name = "Message"
    /\ op.how = "target"
    /\ targetPos # NoPos
    /\ clock - targetPos.receivedAt = 2000
    /\ animDuration = MinDuration

\* the last n elements of a sequence, all of it when it has fewer
LastN(seq, n) ==
    IF Len(seq) <= n THEN seq ELSE SubSeq(seq, Len(seq) - n + 1, Len(seq))

\* C14: bounded trail. The trail never holds more than 2000 points, and it
\* is the most recent 2000 (all, while there are fewer) of the positions
\* the page has confirmed, bootstrap and completions alike, in the order in
\* which they were confirmed.
C14_BoundedTrail ==
    /\ Len(trailPoints) <= TrailCap
    /\ trailPoints = LastN(confirmed, TrailCap)

\* a completion pushed a point onto a full trail and the oldest one went
C14_Witness ==
    /\ op.name = "Frame"
    /\ op.how = "done"
    /\ Len(confirmed) = TrailCap + 1
    /\ Len(trailPoints) = TrailCap
    /\ trailPoints[1] = TrailPoint(2)
    /\ trailPoints[TrailCap] = TrailPoint(TrailCap + 1)

Between(a, x, b) == (a <= x /\ x <= b) \/ (b <= x /\ x <= a)

\* C15: interpolation bounds. For the start, target, duration and elapsed
\* time of an animation in flight, with the elapsed fraction t in [0,1], the
\* eased fraction is in [0,1] and the interpolated latitude and longitude
\* each lie between the start's and the target's; the point a frame puts the
\* marker on is that point.
C15_InterpolationBounds ==
    /\ [](LET e == clock - animStart
              d == animDuration
          IN  (animStart # 0 /\ currentPos # NoPos /\ targetPos # NoPos
                  /\ 0 <= e /\ e <= d)
                 => LET pt == Interpolate(currentPos, targetPos, e, d)
                    IN  /\ 0 <= EaseNum(e, d)
                        /\ EaseNum(e, d) <= d * d
                        /\ Between(currentPos.lat, pt.lat, targetPos.lat)
                        /\ Between(currentPos.lon, pt.lon, targetPos.lon))
    /\ [][(op'.name = "Frame" /\ op'.how = "step")
             => /\ Between(currentPos.lat, marker'.lat, targetPos.lat)
                /\ Between(currentPos.lon, marker'.lon, targetPos.lon)]_vars

\* a frame of the second half of an animation moved the marker strictly
\* between its start and its target
C15_Witness ==
    /\ op.name = "Frame"
    /\ op.how = "step"
    /\ 2 * (clock - animStart) > animDuration
    /\ marker # currentPos
    /\ marker # LatLon(targetPos)
    /\ currentPos.lat # targetPos.lat

\* C17: single animation loop. At most one animateMarker callback is
\* requested or waiting to run at any time.
C17_SingleLoop == rafQueue + frame <= 1

\* C18: AnimationState invariant. While animating is set, currentPos and
\* targetPos are not null; a frame that interpolates does so with an
\* elapsed fraction t, 0 <= t < 1: a fraction of 1 or more completes the
\* animation.
C18_AnimationState ==
    /\ [](animating => (currentPos # NoPos /\ targetPos # NoPos))
    /\ [][(op'.name = "Frame" /\ op'.how = "step")
             => /\ 0 <= clock - animStart'
                /\ clock - animStart' < animDuration]_vars

\* a frame interpolated part of the way through an animation that was
\* retargeted after it had started
C18_Witness ==
    /\ animating
    /\ op.name = "Frame"
    /\ op.how = "step"
    /\ clock > animStart
    /\ targetSetAt > animStart

\* nothing is left to run: no animation, no callback requested or waiting
Settled == ~animating /\ rafQueue = 0 /\ frame = 0

\* C20: convergence, as the result a run must end in. Once messages have
\* stopped and the frames have run, the animator is idle with no callback
\* pending and the marker is at the last position received; the frame that
\* completes an animation puts the marker on the target and appends that
\* one point to the trail.
C20_Convergence ==
    /\ []((Settled /\ lastReceived # NoPos) => marker = lastReceived)
    /\ [][(op'.name = "Frame" /\ op'.how = "done")
             => /\ marker' = LatLon(targetPos)
                /\ confirmed' = Append(confirmed, LatLon(targetPos))]_vars

=============================================================================
